---- MODULE Spec2Model ----
(***************************************************************************)
(* cocli "corim" sub-commands: display, create and sign.                   *)
(*                                                                         *)
(* One run of the program executes one command against a filesystem (the  *)
(* package-level afero handle fs).  The state is that filesystem, the      *)
(* command that ran with its arguments, and what the command returned,     *)
(* printed and called, in order.                                           *)
(***************************************************************************)
EXTENDS Integers, Sequences, FiniteSets, TLC

VARIABLES
    fs,     \* the filesystem: path -> file state
    pre,    \* the filesystem as the command found it
    phase,  \* "ready": the command has not run yet; "done": it has returned
    op,     \* the command and its arguments
    res     \* what the command returned, printed and called

vars == <<fs, pre, phase, op, res>>

(***************************************************************************)
(* Bounds of the model.                                                    *)
(***************************************************************************)
\* longest tag sequence of a CoRIM handed to display
MaxTags == 2
\* most artifact files named on one create command line (all kinds together)
MaxFiles == 2

(***************************************************************************)
(* Paths.  A path is kept as (directory, base name, extension) so that     *)
(* filepath.Ext and the directory listing can be computed.                 *)
(***************************************************************************)
Range(s) == { s[i] : i \in 1..Len(s) }

Path(d, b, e) == [dir |-> d, base |-> b, ext |-> e]
\* the empty string given as a path (an unset flag)
NoPath == Path("", "", "")

CorimPath    == Path("", "corim", ".cbor")
MissingPath  == Path("", "nonexistent", ".cbor")

(***************************************************************************)
(* Errors.  fmt.Errorf("<msg> %s: %w", path, cause) is kept as its three   *)
(* parts; errors.New(msg) has no path and no cause.                        *)
(***************************************************************************)
\* the mutant: the format has no %s for the path
Errorf_NoPath(m, p, c) == [msg |-> m, path |-> NoPath, cause |-> c]
Errorf(m, p, c) == [msg |-> m, path |-> p, cause |-> c]
ErrorNew(m) == Errorf(m, NoPath, "")
\* the nil error
NoErr == Errorf("", NoPath, "")

(***************************************************************************)
(* File states and afero.ReadFile.                                         *)
(***************************************************************************)
Absent     == [st |-> "absent"]
Unreadable == [st |-> "unreadable"]

ErrNotExist   == "file does not exist"
ErrPermission == "permission denied"

\* afero.ReadFile(fs, p): the cause of the failure ("" for none)
ReadErr(fsys, p) ==
    IF p \notin DOMAIN fsys \/ fsys[p].st = "absent" THEN ErrNotExist
    ELSE IF fsys[p].st = "unreadable" THEN ErrPermission
    ELSE ""

(***************************************************************************)
(* Bytes of tags.  The three registered identifiers, and 3-byte            *)
(* identifier + payload.                                                   *)
(***************************************************************************)
ComidTag  == <<217, 1, 250>>   \* d9 01 fa
CoswidTag == <<217, 1, 249>>   \* d9 01 f9
CotsTag   == <<217, 1, 251>>   \* d9 01 fb
UnknownId == <<217, 1, 252>>   \* d9 01 fc, registered for no kind

\* a complete one-pair map, an empty map, a text string, a map cut short
BodyOK        == <<161, 1, 1>>
BodyEmptyMap  == <<160>>
BodyText      == <<101, 104>>
BodyTruncated == <<161, 1>>

ErrMajorType == "expected map (CBOR Major Type 5), found Major Type 3"
ErrEOF       == "unexpected EOF"

\* The artifact codec's decode (spec 4.2): the body must be a CBOR map
\* (major type 5, the top three bits of the first byte) and hold both halves
\* of every pair its header announces.  "" is success.
CodecDecodeErr(data) ==
    IF Len(data) = 0 THEN ErrEOF
    ELSE IF data[1] \div 32 # 5 THEN ErrMajorType
    ELSE IF Len(data) - 1 < 2 * (data[1] % 32) THEN ErrEOF
    ELSE ""

(***************************************************************************)
(* display                                                                 *)
(***************************************************************************)
\* one line group printed by display / displayTags
Line(t, i, k, id) == [t |-> t, i |-> i, kind |-> k, id |-> id]

\* printComid / printCoswid / printCots: decode the payload with the kind's
\* codec, print it under hdr; the error is the codec's
printArtifactErr(cborData) == CodecDecodeErr(cborData)

\* the mutant: a tag of the identifier alone passes the length check
TagTooShort_Off(e) == Len(e) < 3
\* corimDisplay.go:140  len(e) < 4
TagTooShort(e) == Len(e) < 4

\* the mutant: an identifier that matches no case is taken for a CoTS
TagKind_Default(cborTag) ==
    CASE cborTag = ComidTag  -> "CoMID"
      [] cborTag = CoswidTag -> "CoSWID"
      [] OTHER               -> "CoTS"
\* the switch of displayTags: which case the identifier selects
TagKind(cborTag) ==
    CASE cborTag = ComidTag  -> "CoMID"
      [] cborTag = CoswidTag -> "CoSWID"
      [] cborTag = CotsTag   -> "CoTS"
      [] OTHER               -> "Unknown"

\* the body of the loop of displayTags for tag e at (0-based) index i
TagLine(e, i) ==
    IF TagTooShort(e) THEN Line("skipping malformed tag", i, "", <<>>)
    ELSE LET cborTag  == SubSeq(e, 1, 3)
             cborData == SubSeq(e, 4, Len(e))
             kind     == TagKind(cborTag)
         IN  IF kind = "Unknown"
             THEN Line("unmatched CBOR tag", -1, "", cborTag)
             ELSE IF printArtifactErr(cborData) = ""
                  THEN Line("printed", i, kind, <<>>)
                  ELSE Line("skipping malformed kind tag", i, kind, <<>>)

RECURSIVE displayTagsFrom_Stop(_, _)
\* the mutant: the loop ends at the first tag its codec does not decode
displayTagsFrom_Stop(tags, j) ==
    IF j > Len(tags) THEN <<>>
    ELSE IF TagLine(tags[j], j - 1).t = "skipping malformed kind tag"
    THEN <<TagLine(tags[j], j - 1)>>
    ELSE <<TagLine(tags[j], j - 1)>> \o displayTagsFrom_Stop(tags, j + 1)
RECURSIVE displayTagsFrom(_, _)
\* the loop of displayTags from position j on
displayTagsFrom(tags, j) ==
    IF j > Len(tags) THEN <<>>
    ELSE <<TagLine(tags[j], j - 1)>> \o displayTagsFrom(tags, j + 1)

\* displayTags(tags), corimDisplay.go:137-167
displayTags(tags) == displayTagsFrom(tags, 1)

\* A CoRIM file as the decoders see it: the error of SignedCorim.FromCOSE and
\* of UnsignedCorim.FromCBOR ("" for success), whether json.MarshalIndent
\* accepts the decoded Meta and the decoded CoRIM, and the decoded tags.
CorimFile(cose, cbor, mj, cj, tags) ==
    [st |-> "file", cose |-> cose, cbor |-> cbor,
     metaJSON |-> mj, corimJSON |-> cj, tags |-> tags]

ErrCOSE    == "failed CBOR decoding for COSE-Sign1 signed CoRIM"
ErrMarshal == "json: error calling MarshalJSON"

Result(err, name, out, trace, tags) ==
    [err |-> err, name |-> name, out |-> out, trace |-> trace, tags |-> tags]

Ev(e, p) == [e |-> e, path |-> p]

\* the mutant: when both decodes fail the first decode's error is returned
DecodeFailure_First(corimFile, b) ==
    Errorf("error decoding CoRIM (signed or unsigned) from", corimFile, b.cose)
\* corimDisplay.go:110-112
DecodeFailure(corimFile, b) ==
    Errorf("error decoding CoRIM (signed or unsigned) from", corimFile, b.cbor)

\* the mutant: the fallback to the unsigned decode is missing
display_NoFallback(fsys, corimFile, showTags) ==
    LET rd == Ev("ReadFile", corimFile)
        b  == fsys[corimFile]
    IN  IF ReadErr(fsys, corimFile) # ""
        THEN Result(Errorf("error loading CoRIM from", corimFile, ReadErr(fsys, corimFile)),
                    NoPath, <<>>, <<rd>>, <<>>)
        ELSE IF b.cose = ""
        THEN Result(NoErr, NoPath, <<Line("Meta:", -1, "", <<>>), Line("Corim:", -1, "", <<>>)>>,
                    <<rd, Ev("FromCOSE", corimFile)>>, b.tags)
        ELSE Result(Errorf("error decoding signed CoRIM from", corimFile, b.cose),
                    NoPath, <<>>, <<rd, Ev("FromCOSE", corimFile)>>, <<>>)
\* display(corimFile, showTags), corimDisplay.go:64-134
display(fsys, corimFile, showTags) ==
    LET rd == Ev("ReadFile", corimFile)
        b  == fsys[corimFile]
        tagLines == IF showTags
                    THEN <<Line("Tags:", -1, "", <<>>)>> \o displayTags(b.tags)
                    ELSE <<>>
        tagEv == IF showTags THEN <<Ev("displayTags", corimFile)>> ELSE <<>>
    IN  IF ReadErr(fsys, corimFile) # ""
        THEN Result(Errorf("error loading CoRIM from", corimFile, ReadErr(fsys, corimFile)),
                    NoPath, <<>>, <<rd>>, <<>>)
        ELSE IF b.cose = ""
        THEN \* decoded as a signed CoRIM
             LET t1 == <<rd, Ev("FromCOSE", corimFile), Ev("MarshalIndent Meta", corimFile)>>
                 t2 == t1 \o <<Ev("MarshalIndent Corim", corimFile)>>
             IN  IF ~b.metaJSON
                 THEN Result(Errorf("error encoding CoRIM Meta from", corimFile, ErrMarshal),
                             NoPath, <<>>, t1, b.tags)
                 ELSE IF ~b.corimJSON
                 THEN Result(Errorf("error encoding unsigned CoRIM from", corimFile, ErrMarshal),
                             NoPath, <<Line("Meta:", -1, "", <<>>)>>, t2, b.tags)
                 ELSE Result(NoErr, NoPath,
                             <<Line("Meta:", -1, "", <<>>), Line("Corim:", -1, "", <<>>)>>
                                 \o tagLines,
                             t2 \o tagEv, b.tags)
        ELSE \* the fallback: decode as an unsigned CoRIM
             LET t1 == <<rd, Ev("FromCOSE", corimFile), Ev("FromCBOR", corimFile)>>
                 t2 == t1 \o <<Ev("MarshalIndent Corim", corimFile)>>
             IN  IF b.cbor # ""
                 THEN Result(DecodeFailure(corimFile, b), NoPath, <<>>, t1, <<>>)
                 ELSE IF ~b.corimJSON
                 THEN Result(Errorf("error encoding unsigned CoRIM from", corimFile, ErrMarshal),
                             NoPath, <<>>, t2, b.tags)
                 ELSE Result(NoErr, NoPath,
                             <<Line("Corim:", -1, "", <<>>)>> \o tagLines,
                             t2 \o tagEv, b.tags)

\* RunE of the display command: checkCorimDisplayArgs, then display
RunDisplay(fsys, corimFile, showTags) ==
    IF corimFile = NoPath
    THEN Result(ErrorNew("no CoRIM supplied"), NoPath, <<>>, <<>>, <<>>)
    ELSE display(fsys, corimFile, showTags)

(***************************************************************************)
(* create                                                                  *)
(***************************************************************************)
TemplatePath == Path("dir", "t1", ".json")
ArtA         == Path("", "a", ".cbor")
ArtB         == Path("dir", "b", ".cbor")
OutPath      == Path("", "out", ".cbor")

\* every path of the model, in the order afero.ReadDir lists names
SortedPaths ==
    <<ArtA, Path("", "cert", ".der"), CorimPath, Path("", "intermediates", ".der"),
      Path("", "key", ".jwk"), Path("", "meta", ".json"), MissingPath, OutPath,
      Path("", "signed-corim", ".cbor"), Path("", "t1", ".cbor"),
      ArtB, TemplatePath>>

\* a second complete map, so that two artifacts differ
BodyOK2 == <<161, 1, 2>>

ErrJSON == "unexpected end of JSON input"

\* A template as UnsignedCorim.FromJSON sees it: the decode error ("" for
\* none) and whether it sets the mandatory manifest-level fields.
TemplateFile(json, fields) == [st |-> "file", json |-> json, fields |-> fields]
\* an artifact file: its bytes
ArtifactFile(bytes) == [st |-> "file", bytes |-> bytes]
\* the file create writes: the encoding of manifest c
EncodedCorim(c) == [st |-> "file", corim |-> c]
\* what a failed write may leave behind
PartialFile == [st |-> "file", corim |-> "truncated"]

\* makeFileName("", tmplFile, ".cbor"): the template's base name, in the
\* current directory, with the new extension
makeFileName(dirName, baseName, ext) == Path(dirName, baseName.base, ext)

\* fs.Stat(p) succeeds
Exists(fsys, p) == p \in DOMAIN fsys /\ fsys[p].st # "absent"

SelectPaths(fsys, paths, ext) ==
    SelectSeq(paths, LAMBDA p : Exists(fsys, p) /\ p.ext = ext)

RECURSIVE DirFiles(_, _, _, _)
DirFiles(fsys, dirs, ext, j) ==
    IF j > Len(dirs) THEN <<>>
    ELSE SelectSeq(SortedPaths,
                   LAMBDA p : Exists(fsys, p) /\ p.dir = dirs[j] /\ p.ext = ext)
         \o DirFiles(fsys, dirs, ext, j + 1)

\* filesList(files, dirs, ext): the named files that exist and carry the
\* extension, then the files with the extension found in each directory
filesList(fsys, files, dirs, ext) ==
    SelectPaths(fsys, files, ext) \o DirFiles(fsys, dirs, ext, 1)

\* the artifact codec's validate (spec 4.2): a map with no pair lacks the
\* first mandatory field
CodecValid(body) == body[1] % 32 > 0

KindTag(kind) ==
    CASE kind = "CoMID"  -> ComidTag
      [] kind = "CoSWID" -> CoswidTag
      [] kind = "CoTS"   -> CotsTag

\* c.AddComid(&m) / c.AddCoswid(&s) / c.AddCots(&t): the artifact is
\* validated and encoded, and its tag appended; nil (ok = FALSE) and no
\* change when the artifact is not valid
AddArtifact(c, kind, body) ==
    IF CodecValid(body)
    THEN [ok |-> TRUE, c |-> [c EXCEPT !.tags = Append(@, KindTag(kind) \o body)]]
    ELSE [ok |-> FALSE, c |-> c]

\* c.Valid() (spec 4.3): the mandatory manifest-level fields are set and
\* there is at least one tag
Valid(c) == c.fields /\ Len(c.tags) > 0

LoadMsg(kind) ==
    CASE kind = "CoMID"  -> "error loading CoMID from"
      [] kind = "CoSWID" -> "error loading CoSWID from"
      [] kind = "CoTS"   -> "error loading CoTS from"

\* the mutant: a rejected add is reported with the text of a failed load
AddMsg_Load(kind) == LoadMsg(kind)
AddMsg(kind) ==
    CASE kind = "CoMID"  -> "error adding CoMID from"
      [] kind = "CoSWID" -> "error adding CoSWID from"
      [] kind = "CoTS"   -> "error adding CoTS from"

AddCause(kind) ==
    IF kind = "CoMID" THEN "(check its validity using the \"comid validate\" sub-command)"
    ELSE ""

Loop(c, trace, err) == [c |-> c, trace |-> trace, err |-> err]

RECURSIVE appendFiles(_, _, _, _, _)
RECURSIVE appendFiles_Late(_, _, _, _, _)
\* the mutant: the result of the add is looked at only after the loop, so
\* the files after a rejected one are still added
appendFiles_Late(fsys, st, kind, files, j) ==
    IF j > Len(files) \/ (st.err # NoErr /\ st.err.msg # AddMsg(kind)) THEN st
    ELSE LET f     == files[j]
             t1    == st.trace \o <<Ev("ReadFile", f)>>
             t2    == t1 \o <<Ev("FromCBOR", f)>>
             t3    == t2 \o <<Ev("Add", f)>>
             body  == fsys[f].bytes
             added == AddArtifact(st.c, kind, body)
         IN  IF ReadErr(fsys, f) # ""
             THEN Loop(st.c, t1, Errorf(LoadMsg(kind), f, ReadErr(fsys, f)))
             ELSE IF CodecDecodeErr(body) # ""
             THEN Loop(st.c, t2, Errorf(LoadMsg(kind), f, CodecDecodeErr(body)))
             ELSE appendFiles_Late(fsys,
                      Loop(added.c, t3,
                           IF st.err # NoErr THEN st.err
                           ELSE IF added.ok THEN NoErr
                           ELSE Errorf(AddMsg(kind), f, AddCause(kind))),
                      kind, files, j + 1)
\* one of the three "append" loops of corimTemplateToCBOR, from file j on:
\* read, decode, add, and return at the first failure
appendFiles(fsys, st, kind, files, j) ==
    IF j > Len(files) THEN st
    ELSE LET f     == files[j]
             t1    == st.trace \o <<Ev("ReadFile", f)>>
             t2    == t1 \o <<Ev("FromCBOR", f)>>
             t3    == t2 \o <<Ev("Add", f)>>
             body  == fsys[f].bytes
             added == AddArtifact(st.c, kind, body)
         IN  IF ReadErr(fsys, f) # ""
             THEN Loop(st.c, t1, Errorf(LoadMsg(kind), f, ReadErr(fsys, f)))
             ELSE IF CodecDecodeErr(body) # ""
             THEN Loop(st.c, t2, Errorf(LoadMsg(kind), f, CodecDecodeErr(body)))
             ELSE IF ~added.ok
             THEN Loop(added.c, t3, Errorf(AddMsg(kind), f, AddCause(kind)))
             ELSE appendFiles(fsys, Loop(added.c, t3, NoErr), kind, files, j + 1)

\* the mutant: the CoSWID loop runs before the CoMID loop
appendAll_CoswidFirst(fsys, st, comidFiles, coswidFiles, cotsFiles) ==
    LET s == appendFiles(fsys, st, "CoSWID", coswidFiles, 1)
        m == IF s.err # NoErr THEN s ELSE appendFiles(fsys, s, "CoMID", comidFiles, 1)
    IN  IF m.err # NoErr THEN m ELSE appendFiles(fsys, m, "CoTS", cotsFiles, 1)
\* what the three loops leave: CoMIDs, then CoSWIDs, then CoTS
appendAll(fsys, st, comidFiles, coswidFiles, cotsFiles) ==
    LET m == appendFiles(fsys, st, "CoMID", comidFiles, 1)
        s == IF m.err # NoErr THEN m ELSE appendFiles(fsys, m, "CoSWID", coswidFiles, 1)
    IN  IF s.err # NoErr THEN s ELSE appendFiles(fsys, s, "CoTS", cotsFiles, 1)

Done(r, fsys) == [res |-> r, fs |-> fsys]

\* the end of corimTemplateToCBOR, corimCreate.go:212-233: validate, encode,
\* name the output, write.  encOK: c.ToCBOR succeeds; wr: what
\* afero.WriteFile does ("ok", "failed": nothing written, "partial": the
\* file is left cut short).
\* the mutant: the manifest is written before it is validated
finish_WriteFirst(fsys, st, tmplFile, outputFile, encOK, wr) ==
    LET corimFile == IF outputFile = NoPath
                     THEN makeFileName("", tmplFile, ".cbor")
                     ELSE outputFile
        tw == st.trace \o <<Ev("ToCBOR", NoPath), Ev("WriteFile", corimFile), Ev("Valid", NoPath)>>
        written == [p \in DOMAIN fsys \cup {corimFile} |->
                       IF p = corimFile THEN EncodedCorim(st.c) ELSE fsys[p]]
    IN  IF ~Valid(st.c)
        THEN Done(Result(Errorf("error validating CoRIM:", NoPath, "invalid"),
                         NoPath, <<>>, tw, st.c.tags), written)
        ELSE Done(Result(NoErr, corimFile, <<>>, tw, st.c.tags), written)
\* the mutant: the manifest is encoded and written without being validated
finish_NoValid(fsys, st, tmplFile, outputFile, encOK, wr) ==
    LET corimFile == IF outputFile = NoPath
                     THEN makeFileName("", tmplFile, ".cbor")
                     ELSE outputFile
        tw == st.trace \o <<Ev("ToCBOR", NoPath), Ev("WriteFile", corimFile)>>
    IN  Done(Result(NoErr, corimFile, <<>>, tw, st.c.tags),
             [p \in DOMAIN fsys \cup {corimFile} |->
                 IF p = corimFile THEN EncodedCorim(st.c) ELSE fsys[p]])
finish(fsys, st, tmplFile, outputFile, encOK, wr) ==
    LET corimFile == IF outputFile = NoPath
                     THEN makeFileName("", tmplFile, ".cbor")
                     ELSE outputFile
        tv == st.trace \o <<Ev("Valid", NoPath)>>
        te == tv \o <<Ev("ToCBOR", NoPath)>>
        tw == te \o <<Ev("WriteFile", corimFile)>>
        put(content) == [p \in DOMAIN fsys \cup {corimFile} |->
                            IF p = corimFile THEN content ELSE fsys[p]]
    IN  IF ~Valid(st.c)
        THEN Done(Result(Errorf("error validating CoRIM:", NoPath, "invalid"),
                         NoPath, <<>>, tv, st.c.tags), fsys)
        ELSE IF ~encOK
        THEN Done(Result(Errorf("error encoding CoRIM to CBOR:", NoPath, "encode"),
                         NoPath, <<>>, te, st.c.tags), fsys)
        ELSE IF wr # "ok"
        THEN Done(Result(Errorf("error saving CoRIM to file", corimFile, "write"),
                         NoPath, <<>>, tw, st.c.tags),
                  IF wr = "partial" THEN put(PartialFile) ELSE fsys)
        ELSE Done(Result(NoErr, corimFile, <<>>, tw, st.c.tags), put(EncodedCorim(st.c)))

\* corimTemplateToCBOR, corimCreate.go:127-234
corimTemplateToCBOR(fsys, tmplFile, comidFiles, coswidFiles, cotsFiles, outputFile, encOK, wr) ==
    LET t1 == <<Ev("ReadFile", tmplFile)>>
        t2 == t1 \o <<Ev("FromJSON", tmplFile)>>
        c0 == [fields |-> fsys[tmplFile].fields, tags |-> <<>>]
        st == appendAll(fsys, Loop(c0, t2, NoErr), comidFiles, coswidFiles, cotsFiles)
    IN  IF ReadErr(fsys, tmplFile) # ""
        THEN Done(Result(Errorf("error loading template from", tmplFile, ReadErr(fsys, tmplFile)),
                         NoPath, <<>>, t1, <<>>), fsys)
        ELSE IF fsys[tmplFile].json # ""
        THEN Done(Result(Errorf("error decoding template from", tmplFile, fsys[tmplFile].json),
                         NoPath, <<>>, t2, <<>>), fsys)
        ELSE IF st.err # NoErr
        THEN Done(Result(st.err, NoPath, <<>>, st.trace, st.c.tags), fsys)
        ELSE finish(fsys, st, tmplFile, outputFile, encOK, wr)

\* checkCorimCreateArgs, corimCreate.go:113-125
checkCorimCreateArgs(a) ==
    IF a.template = NoPath THEN ErrorNew("no CoRIM template supplied")
    ELSE IF Len(a.comidDirs) + Len(a.comidFiles) + Len(a.coswidDirs) + Len(a.coswidFiles)
            + Len(a.cotsDirs) + Len(a.cotsFiles) = 0
    THEN ErrorNew("no CoMID, CoSWID or CoTS files or folders supplied")
    ELSE NoErr

\* the mutant: the check that the lists hold a file is missing
RunCreate_NoCount(fsys, a, encOK, wr) ==
    LET comidFilesList  == filesList(fsys, a.comidFiles, a.comidDirs, ".cbor")
        coswidFilesList == filesList(fsys, a.coswidFiles, a.coswidDirs, ".cbor")
        cotsFilesList   == filesList(fsys, a.cotsFiles, a.cotsDirs, ".cbor")
        r == corimTemplateToCBOR(fsys, a.template, comidFilesList, coswidFilesList,
                                 cotsFilesList, a.output, encOK, wr)
    IN  IF a.template = NoPath
        THEN Done(Result(checkCorimCreateArgs(a), NoPath, <<>>, <<>>, <<>>), fsys)
        ELSE IF r.res.err # NoErr THEN r
        ELSE Done([r.res EXCEPT !.out = <<Line("created", -1, "", <<>>)>>], r.fs)
\* RunE of the create command, corimCreate.go:57-79
RunCreate(fsys, a, encOK, wr) ==
    LET comidFilesList  == filesList(fsys, a.comidFiles, a.comidDirs, ".cbor")
        coswidFilesList == filesList(fsys, a.coswidFiles, a.coswidDirs, ".cbor")
        cotsFilesList   == filesList(fsys, a.cotsFiles, a.cotsDirs, ".cbor")
        r == corimTemplateToCBOR(fsys, a.template, comidFilesList, coswidFilesList,
                                 cotsFilesList, a.output, encOK, wr)
    IN  IF checkCorimCreateArgs(a) # NoErr
        THEN Done(Result(checkCorimCreateArgs(a), NoPath, <<>>, <<>>, <<>>), fsys)
        ELSE IF Len(comidFilesList) + Len(coswidFilesList) + Len(cotsFilesList) = 0
        THEN Done(Result(ErrorNew("no CoMID, CoSWID or CoTS files found"),
                         NoPath, <<>>, <<>>, <<>>), fsys)
        ELSE IF r.res.err # NoErr THEN r
        ELSE Done([r.res EXCEPT !.out = <<Line("created", -1, "", <<>>)>>], r.fs)

(***************************************************************************)
(* sign                                                                    *)
(***************************************************************************)
MetaPath   == Path("", "meta", ".json")
KeyPath    == Path("", "key", ".jwk")
CertPath   == Path("", "cert", ".der")
InterPath  == Path("", "intermediates", ".der")
SignedPath == Path("", "signed-corim", ".cbor")

\* a Meta document: the error of Meta.FromJSON ("" for none) and its signer
\* name
MetaFile(json, signerName) == [st |-> "file", json |-> json, signerName |-> signerName]
\* a JWK document: whether it holds a key of a supported family
KeyFile(ok) == [st |-> "file", key |-> ok]
\* DER bytes: whether they parse as the certificate(s) asked for
DerFile(ok) == [st |-> "file", der |-> ok]
\* the signed CoRIM sign writes
SignedCorimFile(c, m, cert, inter) ==
    [st |-> "file", signed |-> [corim |-> c, meta |-> m, cert |-> cert, inter |-> inter]]

ErrEmptyName == "invalid signer: empty name"
ErrKeyType   == "invalid key type from JSON ()"
ErrNoLeaf    == "cannot add intermediate certificates without a signing certificate"

\* the default output name: "signed-" before the CoRIM's base name
signedFileName(unsignedCorimFile) ==
    IF unsignedCorimFile = CorimPath THEN SignedPath
    ELSE Path("", "signed-", ".cbor")

Stage(trace, err) == [trace |-> trace, err |-> err]

\* the unsigned CoRIM is loaded, decoded and validated
stageCorim(fsys, a, st) ==
    LET f  == a.file
        t1 == st.trace \o <<Ev("ReadFile", f)>>
        t2 == t1 \o <<Ev("FromCBOR", f)>>
        t3 == t2 \o <<Ev("Valid", f)>>
    IN  IF st.err # NoErr THEN st
        ELSE IF ReadErr(fsys, f) # ""
        THEN Stage(t1, Errorf("error loading unsigned CoRIM from", f, ReadErr(fsys, f)))
        ELSE IF fsys[f].cbor # ""
        THEN Stage(t2, Errorf("error decoding unsigned CoRIM from", f, fsys[f].cbor))
        ELSE IF ~Valid([fields |-> TRUE, tags |-> fsys[f].tags])
        THEN Stage(t3, Errorf("error validating CoRIM:", NoPath, "invalid"))
        ELSE Stage(t3, NoErr)

\* the Meta is loaded, decoded and validated: the signer name is not empty
stageMeta(fsys, a, st) ==
    LET f  == a.meta
        t1 == st.trace \o <<Ev("ReadFile", f)>>
        t2 == t1 \o <<Ev("FromJSON", f)>>
        t3 == t2 \o <<Ev("Meta.Valid", f)>>
    IN  IF st.err # NoErr THEN st
        ELSE IF ReadErr(fsys, f) # ""
        THEN Stage(t1, Errorf("error loading CoRIM Meta from", f, ReadErr(fsys, f)))
        ELSE IF fsys[f].json # ""
        THEN Stage(t2, Errorf("error decoding CoRIM Meta from", f, fsys[f].json))
        ELSE IF fsys[f].signerName = ""
        THEN Stage(t3, Errorf("error validating CoRIM Meta:", NoPath, ErrEmptyName))
        ELSE Stage(t3, NoErr)

\* the key is loaded and parsed
stageKey(fsys, a, st) ==
    LET f  == a.key
        t1 == st.trace \o <<Ev("ReadFile", f)>>
        t2 == t1 \o <<Ev("NewSignerFromJWK", f)>>
    IN  IF st.err # NoErr THEN st
        ELSE IF ReadErr(fsys, f) # ""
        THEN Stage(t1, Errorf("error loading signing key from", f, ReadErr(fsys, f)))
        ELSE IF ~fsys[f].key
        THEN Stage(t2, Errorf("error loading signing key from", f, ErrKeyType))
        ELSE Stage(t2, NoErr)

\* the mutant: intermediates are accepted without a signing certificate
stageLeafCheck_Off(fsys, a, st) == st
\* intermediates without a signing certificate are refused
stageLeafCheck(fsys, a, st) ==
    IF st.err # NoErr THEN st
    ELSE IF a.intermediates # NoPath /\ a.cert = NoPath
    THEN Stage(st.trace, ErrorNew(ErrNoLeaf))
    ELSE st

\* a DER file is loaded and added, when it is given
stageDer(fsys, f, st, loadMsg, addMsg, addEv) ==
    LET t1 == st.trace \o <<Ev("ReadFile", f)>>
        t2 == t1 \o <<Ev(addEv, f)>>
    IN  IF st.err # NoErr \/ f = NoPath THEN st
        ELSE IF ReadErr(fsys, f) # ""
        THEN Stage(t1, Errorf(loadMsg, f, ReadErr(fsys, f)))
        ELSE IF ~fsys[f].der
        THEN Stage(t2, Errorf(addMsg, f, "x509: malformed certificate"))
        ELSE Stage(t2, NoErr)

stageCert(fsys, a, st) ==
    stageDer(fsys, a.cert, st, "error loading signing certificate from",
             "error adding signing certificate", "AddSigningCert")

stageIntermediates(fsys, a, st) ==
    stageDer(fsys, a.intermediates, st, "error loading intermediate certificates from",
             "error adding intermediate certificates", "AddIntermediateCerts")

\* the mutant: the key is loaded before the Meta
signChecks_KeyFirst(fsys, a) ==
    stageIntermediates(fsys, a,
      stageCert(fsys, a,
        stageLeafCheck(fsys, a,
          stageMeta(fsys, a,
            stageKey(fsys, a,
              stageCorim(fsys, a, Stage(<<>>, NoErr)))))))
\* the preconditions of sign, in order (spec 4.4)
signChecks(fsys, a) ==
    stageIntermediates(fsys, a,
      stageCert(fsys, a,
        stageLeafCheck(fsys, a,
          stageKey(fsys, a,
            stageMeta(fsys, a,
              stageCorim(fsys, a, Stage(<<>>, NoErr)))))))

\* sign: the checks, then the signature and the output file.  signOK: the
\* signing succeeds; wr: what afero.WriteFile does.
sign(fsys, a, signOK, wr) ==
    LET st == signChecks(fsys, a)
        coseFile == IF a.output = NoPath THEN signedFileName(a.file) ELSE a.output
        ts == st.trace \o <<Ev("Sign", NoPath)>>
        tw == ts \o <<Ev("WriteFile", coseFile)>>
        content == SignedCorimFile(fsys[a.file].tags, fsys[a.meta].signerName,
                                   a.cert # NoPath, a.intermediates # NoPath)
    IN  IF st.err # NoErr
        THEN Done(Result(st.err, NoPath, <<>>, st.trace, <<>>), fsys)
        ELSE IF ~signOK
        THEN Done(Result(Errorf("error signing CoRIM:", NoPath, "sign"),
                         NoPath, <<>>, ts, <<>>), fsys)
        ELSE IF wr # "ok"
        THEN Done(Result(Errorf("error saving signed CoRIM to file", coseFile, "write"),
                         NoPath, <<>>, tw, <<>>),
                  IF wr = "partial" THEN [fsys EXCEPT ![coseFile] = PartialFile] ELSE fsys)
        ELSE Done(Result(NoErr, coseFile, <<Line("created", -1, "", <<>>)>>, tw,
                         fsys[a.file].tags),
                  [fsys EXCEPT ![coseFile] = content])

\* checkCorimSignArgs: the three mandatory flags
checkCorimSignArgs(a) ==
    IF a.file = NoPath THEN ErrorNew("no CoRIM supplied")
    ELSE IF a.meta = NoPath THEN ErrorNew("no CoRIM Meta supplied")
    ELSE IF a.key = NoPath THEN ErrorNew("no key supplied")
    ELSE NoErr

\* RunE of the sign command
RunSign(fsys, a, signOK, wr) ==
    IF checkCorimSignArgs(a) # NoErr
    THEN Done(Result(checkCorimSignArgs(a), NoPath, <<>>, <<>>, <<>>), fsys)
    ELSE sign(fsys, a, signOK, wr)

(***************************************************************************)
(* The inputs.                                                             *)
(***************************************************************************)
SampleTags ==
    { <<>>,
      ComidTag,
      ComidTag  \o BodyOK,
      ComidTag  \o BodyText,
      CoswidTag \o BodyOK,
      CoswidTag \o BodyTruncated,
      CotsTag   \o BodyOK,
      CotsTag   \o BodyEmptyMap,
      UnknownId \o BodyOK }

TagSeqs == UNION { [1..n -> SampleTags] : n \in 0..MaxTags }

CorimFiles ==
    { CorimFile(cose, cbor, mj, cj, tags) :
        cose \in {"", ErrCOSE}, cbor \in {"", ErrMajorType, ErrEOF},
        mj \in BOOLEAN, cj \in BOOLEAN, tags \in TagSeqs }

AllPaths == Range(SortedPaths)

\* afero.NewMemMapFs()
EmptyFs == [p \in AllPaths |-> Absent]

\* the filesystem holds no file outside P
OnlyFiles(fsys, P) == \A p \in AllPaths \ P : fsys[p] = Absent

\* the filesystems display is run against
DisplayFs == { [EmptyFs EXCEPT ![CorimPath] = b] : b \in CorimFiles \cup {Absent, Unreadable} }

TemplateFiles ==
    { TemplateFile(ErrJSON, FALSE), TemplateFile("", FALSE), TemplateFile("", TRUE) }

ArtifactFiles(ok) == { ArtifactFile(b) : b \in {ok, BodyEmptyMap, BodyText} }

\* what the encoding (c.ToCBOR, s.Sign) and afero.WriteFile do: <<ok, wr>>
Outcomes == { <<FALSE, "ok">>, <<TRUE, "ok">>, <<TRUE, "failed">>, <<TRUE, "partial">> }

\* the filesystems create is run against
CreateFs ==
    { [EmptyFs EXCEPT ![TemplatePath] = t, ![ArtA] = a, ![ArtB] = b] :
        t \in TemplateFiles \cup {Absent, Unreadable},
        a \in ArtifactFiles(BodyOK) \cup {Absent, Unreadable},
        b \in ArtifactFiles(BodyOK2) \cup {Absent, Unreadable} }

FileSeqs(n) == UNION { [1..k -> {ArtA, ArtB}] : k \in 0..n }

\* the flags that name an artifact file, corimCreate.go:88-106
FileFlags == {"comid", "coswid", "cots"}

\* the command lines: at most n file flags, in any order
CmdLines(n) ==
    UNION { { [i \in 1..Len(v) |-> [flag |-> f[i], value |-> v[i]]] :
                f \in [1..Len(v) -> FileFlags] } : v \in FileSeqs(n) }

\* cmd.Flags().StringArrayVarP(&files, name, ...): the values of the flag
\* name, in the order of the command line
StringArray(line, name) ==
    LET sel == SelectSeq(line, LAMBDA x : x.flag = name)
    IN  [i \in 1..Len(sel) |-> sel[i].value]

\* the directory flags: at most one directory on the command line
DirFlags ==
    { <<<<>>, <<>>, <<>>>>, <<<<"dir">>, <<>>, <<>>>>,
      <<<<>>, <<"dir">>, <<>>>>, <<<<>>, <<>>, <<"dir">>>> }

CreateArgs(t, m, s, c, d, o) ==
    [template |-> t, comidFiles |-> m, coswidFiles |-> s, cotsFiles |-> c,
     comidDirs |-> d[1], coswidDirs |-> d[2], cotsDirs |-> d[3], output |-> o]

\* the unsigned CoRIMs sign is given: none, one that does not decode, one
\* without tags, a valid one
SignCorimFiles ==
    { Absent,
      CorimFile(ErrCOSE, ErrMajorType, TRUE, TRUE, <<>>),
      CorimFile(ErrCOSE, "", TRUE, TRUE, <<>>),
      CorimFile(ErrCOSE, "", TRUE, TRUE, <<ComidTag \o BodyOK>>) }

\* the filesystems sign is run against
SignFs ==
    { [EmptyFs EXCEPT ![CorimPath] = c, ![MetaPath] = m, ![KeyPath] = k,
                      ![CertPath] = x, ![InterPath] = i] :
        c \in SignCorimFiles,
        m \in { Absent, MetaFile(ErrJSON, ""), MetaFile("", ""), MetaFile("", "ACME Ltd.") },
        k \in { Absent, KeyFile(FALSE), KeyFile(TRUE) },
        x \in { Absent, DerFile(FALSE), DerFile(TRUE) },
        i \in { Absent, DerFile(FALSE), DerFile(TRUE) } }

SignArgs(f, m, k, x, i, o) ==
    [file |-> f, meta |-> m, key |-> k, cert |-> x, intermediates |-> i, output |-> o]

Idle == [cmd |-> "none"]

(***************************************************************************)
(* The state machine.                                                      *)
(***************************************************************************)
Init ==
    /\ fs = EmptyFs
    /\ pre = EmptyFs
    /\ phase = "ready"
    /\ op = Idle
    /\ res = Result(NoErr, NoPath, <<>>, <<>>, <<>>)

\* fs = afero.NewMemMapFs(): a fresh, empty filesystem for the next run
NewMemMapFs ==
    /\ phase = "done"
    /\ fs' = EmptyFs
    /\ pre' = EmptyFs
    /\ phase' = "ready"
    /\ op' = Idle
    /\ res' = Result(NoErr, NoPath, <<>>, <<>>, <<>>)

\* afero.WriteFile calls of the environment put the run's input files in
\* the fresh filesystem
WriteInputs ==
    /\ phase = "ready"
    /\ fs = EmptyFs
    /\ \E f \in DisplayFs \cup CreateFs \cup SignFs : fs' = f /\ pre' = f
    /\ UNCHANGED <<phase, op, res>>

\* cocli corim display [--file f] [--show-tags]
CorimDisplay ==
    /\ phase = "ready"
    /\ OnlyFiles(fs, {CorimPath})
    /\ \E f \in {NoPath, CorimPath, MissingPath}, showTags \in BOOLEAN :
          /\ op' = [cmd |-> "display", file |-> f, showTags |-> showTags]
          /\ res' = RunDisplay(fs, f, showTags)
    /\ phase' = "done"
    /\ pre' = fs
    /\ UNCHANGED fs

\* cocli corim create --template t [--comid f ...] [--comid-dir d ...] ...
CorimCreate ==
    /\ phase = "ready"
    /\ OnlyFiles(fs, {TemplatePath, ArtA, ArtB})
    /\ \E t \in {NoPath, TemplatePath}, d \in DirFlags, o \in {NoPath, OutPath} :
       \E line \in CmdLines(MaxFiles) :
          LET a  == CreateArgs(t, StringArray(line, "comid"), StringArray(line, "coswid"),
                               StringArray(line, "cots"), d, o)
              r0 == RunCreate(fs, a, TRUE, "ok")
          IN  \* ToCBOR and WriteFile can only fail in a run that reaches them
              \E x \in IF r0.res.err = NoErr THEN Outcomes ELSE {<<TRUE, "ok">>} :
                 LET r == IF x = <<TRUE, "ok">> THEN r0 ELSE RunCreate(fs, a, x[1], x[2])
                 IN  /\ op' = [cmd |-> "create", args |-> a, line |-> line]
                     /\ res' = r.res
                     /\ fs' = r.fs
    /\ phase' = "done"
    /\ pre' = fs

\* cocli corim sign --file f --meta m --key k [--cert c] [--intermediates i]
CorimSign ==
    /\ phase = "ready"
    /\ OnlyFiles(fs, {CorimPath, MetaPath, KeyPath, CertPath, InterPath})
    /\ fs[CorimPath] \in SignCorimFiles
    /\ \E f \in {NoPath, CorimPath}, m \in {NoPath, MetaPath}, k \in {NoPath, KeyPath},
          x \in {NoPath, CertPath}, i \in {NoPath, InterPath}, o \in {NoPath, OutPath} :
          LET a  == SignArgs(f, m, k, x, i, o)
              r0 == RunSign(fs, a, TRUE, "ok")
          IN  \* Sign and WriteFile can only fail in a run that reaches them
              \E y \in IF r0.res.err = NoErr THEN Outcomes ELSE {<<TRUE, "ok">>} :
                 LET r == IF y = <<TRUE, "ok">> THEN r0 ELSE RunSign(fs, a, y[1], y[2])
                 IN  /\ op' = [cmd |-> "sign", args |-> a]
                     /\ res' = r.res
                     /\ fs' = r.fs
    /\ phase' = "done"
    /\ pre' = fs

Next == NewMemMapFs \/ WriteInputs \/ CorimDisplay \/ CorimCreate \/ CorimSign

Spec == Init /\ [][Next]_vars

(***************************************************************************)
(* What the claims speak of.                                               *)
(***************************************************************************)
\* display has returned, having read its file
DisplayRead ==
    /\ phase = "done"
    /\ op.cmd = "display"
    /\ op.file \in DOMAIN pre
    /\ pre[op.file].st = "file"

\* the bytes display read
Input == pre[op.file]

\* display has returned from a run that reached displayTags
Expanded == DisplayRead /\ Ev("displayTags", op.file) \in Range(res.trace)

\* the lines displayTags printed: those after the "Tags:" line
TagOut ==
    LET k == CHOOSE k \in 1..Len(res.out) : res.out[k].t = "Tags:"
    IN  SubSeq(res.out, k + 1, Len(res.out))

WellFormed(e) ==
    /\ Len(e) >= 4
    /\ SubSeq(e, 1, 3) \in {ComidTag, CoswidTag, CotsTag}
    /\ CodecDecodeErr(SubSeq(e, 4, Len(e))) = ""

KindOfId(id) ==
    IF id = ComidTag THEN "CoMID" ELSE IF id = CoswidTag THEN "CoSWID" ELSE "CoTS"

UnsignedView ==
    /\ res.err = NoErr
    /\ res.out # <<>>
    /\ res.out[1].t = "Corim:"
    /\ \A k \in 1..Len(res.out) : res.out[k].t # "Meta:"
    /\ op.showTags => Expanded

(***************************************************************************)
(* C1 (as stated): bytes that fail FromCOSE and pass FromCBOR are always   *)
(* displayed as the unsigned view, display never returns an error for     *)
(* them.                                                                   *)
(***************************************************************************)
C1_Original ==
    (DisplayRead /\ Input.cose # "" /\ Input.cbor = "") => UnsignedView

(***************************************************************************)
(* C1 (amended): for bytes that fail FromCOSE and pass FromCBOR, display   *)
(* never returns a decode error; it returns nil and prints the unsigned    *)
(* view, with or without tag expansion, unless json.MarshalIndent rejects  *)
(* the decoded CoRIM, and then the error is "error encoding unsigned CoRIM *)
(* from <path>".                                                           *)
(***************************************************************************)
C1_Fallback ==
    (DisplayRead /\ Input.cose # "" /\ Input.cbor = "") =>
        /\ Input.corimJSON => UnsignedView
        /\ ~Input.corimJSON =>
              res.err = Errorf("error encoding unsigned CoRIM from", op.file, ErrMarshal)

C1_Witness ==
    /\ DisplayRead /\ Input.cose # "" /\ Input.cbor = ""
    /\ op.showTags /\ Len(Input.tags) = 2
    /\ UnsignedView

(***************************************************************************)
(* C2 (as stated): when both decodes fail display returns "error decoding  *)
(* CoRIM (signed or unsigned) from <path>: <cause of the unsigned          *)
(* decode>", and once the file is read no other error is returned.         *)
(***************************************************************************)
BothFail == Input.cose # "" /\ Input.cbor # ""

DualModeError ==
    /\ res.err = Errorf("error decoding CoRIM (signed or unsigned) from", op.file, Input.cbor)
    /\ res.err.cause # Input.cose

C2_Original ==
    DisplayRead =>
        /\ BothFail => DualModeError
        /\ res.err # NoErr => BothFail

(***************************************************************************)
(* C2 (amended): when both decodes fail display returns the dual-mode      *)
(* error with the cause of the unsigned decode, never that of the signed   *)
(* decode; once the file is read, the only other errors display returns    *)
(* are the JSON encoding failures of the decoded Meta or CoRIM.            *)
(***************************************************************************)
C2_DualMode ==
    DisplayRead =>
        /\ BothFail => DualModeError
        /\ (res.err # NoErr /\ ~BothFail) =>
              \/ /\ res.err = Errorf("error encoding CoRIM Meta from", op.file, ErrMarshal)
                 /\ Input.cose = "" /\ ~Input.metaJSON
              \/ /\ res.err = Errorf("error encoding unsigned CoRIM from", op.file, ErrMarshal)
                 /\ ~Input.corimJSON

C2_Witness ==
    /\ DisplayRead /\ BothFail /\ DualModeError
    /\ Input.cbor = ErrEOF

(***************************************************************************)
(* C3: in tag expansion a tag is skipped with "skipping malformed tag at   *)
(* index i" exactly when it is shorter than 4 bytes; every well-formed tag *)
(* is printed under its own index, wherever the short tags are, and        *)
(* display returns nil.                                                    *)
(***************************************************************************)
C3_ShortTagsSkipped ==
    Expanded =>
        /\ res.err = NoErr
        /\ Len(TagOut) = Len(Input.tags)
        /\ \A j \in 1..Len(Input.tags) :
              /\ Len(Input.tags[j]) < 4 <=>
                    TagOut[j] = Line("skipping malformed tag", j - 1, "", <<>>)
              /\ WellFormed(Input.tags[j]) =>
                    TagOut[j] = Line("printed", j - 1,
                                     KindOfId(SubSeq(Input.tags[j], 1, 3)), <<>>)

C3_Witness ==
    /\ Expanded
    /\ Len(Input.tags) = 2
    /\ Len(Input.tags[1]) = 3
    /\ WellFormed(Input.tags[2])
    /\ TagOut[1].t = "skipping malformed tag" /\ TagOut[1].i = 0
    /\ TagOut[2].t = "printed" /\ TagOut[2].i = 1
    /\ res.err = NoErr

(***************************************************************************)
(* C4: in tag expansion a tag of 4 bytes or more whose identifier is none  *)
(* of the three registered ones is reported as "unmatched CBOR tag" with   *)
(* its three identifier bytes, no codec runs on it, and the tags after it  *)
(* are still processed.                                                    *)
(***************************************************************************)
IdOf(e) == IF Len(e) >= 3 THEN SubSeq(e, 1, 3) ELSE <<>>

Unregistered(e) ==
    Len(e) >= 4 /\ IdOf(e) \notin {ComidTag, CoswidTag, CotsTag}

C4_UnmatchedReported ==
    Expanded =>
        /\ Len(TagOut) = Len(Input.tags)
        /\ \A j \in 1..Len(Input.tags) :
              /\ Unregistered(Input.tags[j]) <=>
                    TagOut[j] = Line("unmatched CBOR tag", -1, "", IdOf(Input.tags[j]))
              /\ \A k \in 1..(j - 1) :
                    (Unregistered(Input.tags[k]) /\ WellFormed(Input.tags[j])) =>
                        TagOut[j].t = "printed" /\ TagOut[j].i = j - 1

C4_Witness ==
    /\ Expanded
    /\ Len(Input.tags) = 2
    /\ Unregistered(Input.tags[1])
    /\ WellFormed(Input.tags[2])
    /\ TagOut[1] = Line("unmatched CBOR tag", -1, "", UnknownId)
    /\ TagOut[2].t = "printed"

(***************************************************************************)
(* create: what the claims speak of.                                       *)
(***************************************************************************)
CreateDone == phase = "done" /\ op.cmd = "create"

Tagged(k, files) == [i \in 1..Len(files) |-> [kind |-> k, file |-> files[i]]]

\* the artifact files the command line yields, in the order of the loops
Listed ==
    LET a == op.args
    IN  Tagged("CoMID", filesList(pre, a.comidFiles, a.comidDirs, ".cbor"))
        \o Tagged("CoSWID", filesList(pre, a.coswidFiles, a.coswidDirs, ".cbor"))
        \o Tagged("CoTS", filesList(pre, a.cotsFiles, a.cotsDirs, ".cbor"))

\* the tag the artifact file x yields
TagOf(x) == KindTag(x.kind) \o pre[x.file].bytes

\* the positions of the calls of e in the trace
Pos(e) == { i \in 1..Len(res.trace) : res.trace[i].e = e }

Called(e) == Pos(e) # {}

ListedStepFailed ==
    res.err.msg \in { "error loading template from", "error decoding template from",
                      "error loading CoMID from", "error loading CoSWID from",
                      "error loading CoTS from", "error adding CoMID from",
                      "error adding CoSWID from", "error adding CoTS from",
                      "error validating CoRIM:", "error encoding CoRIM to CBOR:" }

(***************************************************************************)
(* C7: create is atomic.  When the template load or decode, a file read,   *)
(* an artifact decode, an add, the validation or the encoding fails, the   *)
(* returned name is empty and the filesystem is as it was; WriteFile is    *)
(* called only after every listed artifact was added and Valid passed,     *)
(* with the complete manifest, and only the output file changes.           *)
(***************************************************************************)
C7_CreateAtomic ==
    CreateDone =>
        /\ res.err # NoErr => res.name = NoPath
        /\ ListedStepFailed => fs = pre /\ ~Called("WriteFile")
        /\ Called("WriteFile") =>
              /\ Cardinality(Pos("Add")) = Len(Listed)
              /\ res.tags = [i \in 1..Len(Listed) |-> TagOf(Listed[i])]
              /\ Called("Valid") /\ Valid([fields |-> pre[op.args.template].fields,
                                           tags |-> res.tags])
              /\ \A w \in Pos("WriteFile") : \A x \in Pos("Add") \cup Pos("Valid") : x < w
        /\ fs # pre => Called("WriteFile")
        /\ res.err = NoErr =>
              /\ fs[res.name] = EncodedCorim([fields |-> TRUE, tags |-> res.tags])
              /\ \A p \in DOMAIN pre : p # res.name => fs[p] = pre[p]

C7_Witness ==
    /\ CreateDone
    /\ res.err.msg = "error adding CoSWID from"
    /\ Len(res.tags) = 1
    /\ fs = pre
    /\ res.name = NoPath

(***************************************************************************)
(* C8: a failed add leaves the manifest's tag sequence as it was: when     *)
(* create stops at a rejected artifact, the manifest holds exactly the     *)
(* tags of the artifacts added before it, in order, whatever the kind.     *)
(***************************************************************************)
AddFailed ==
    /\ CreateDone
    /\ res.err.msg \in {"error adding CoMID from", "error adding CoSWID from",
                        "error adding CoTS from"}

C9_ValidBeforeEncode ==
    /\ CreateDone =>
          /\ (Called("ToCBOR") \/ Called("WriteFile")) => Called("Valid")
          /\ \A v \in Pos("Valid") :
                /\ Cardinality(Pos("Add")) = Len(Listed)
                /\ \A x \in Pos("Add") : x < v
                /\ \A x \in Pos("ToCBOR") \cup Pos("WriteFile") : v < x
          /\ res.err.msg = "error validating CoRIM:" =>
                ~Called("ToCBOR") /\ ~Called("WriteFile") /\ fs = pre
          /\ (Called("Valid") /\ ~pre[op.args.template].fields) =>
                res.err.msg = "error validating CoRIM:"
    /\ DisplayRead =>
          /\ ~Called("Valid")
          /\ (Input.tags = <<>> /\ Input.corimJSON /\
              (Input.cose = "" => Input.metaJSON) /\ (Input.cose # "" => Input.cbor = ""))
                => res.err = NoErr

C9_Witness ==
    /\ CreateDone
    /\ res.err.msg = "error validating CoRIM:"
    /\ Len(res.tags) = 2
    /\ Called("Valid") /\ ~Called("ToCBOR")

(***************************************************************************)
(* C10: a manifest create writes is never without tags.  With no artifact  *)
(* file or directory on the command line, or when those given yield no     *)
(* file, create fails with a usage error before the template is read;      *)
(* otherwise the written manifest has one tag per listed file.             *)
(***************************************************************************)
NothingSupplied ==
    LET a == op.args
    IN  Len(a.comidDirs) + Len(a.comidFiles) + Len(a.coswidDirs) + Len(a.coswidFiles)
        + Len(a.cotsDirs) + Len(a.cotsFiles) = 0

C10_WrittenTagsNonEmpty ==
    CreateDone =>
        /\ (op.args.template # NoPath /\ NothingSupplied) =>
              /\ res.err = ErrorNew("no CoMID, CoSWID or CoTS files or folders supplied")
              /\ res.trace = <<>> /\ fs = pre
        /\ (op.args.template # NoPath /\ ~NothingSupplied /\ Listed = <<>>) =>
              /\ res.err = ErrorNew("no CoMID, CoSWID or CoTS files found")
              /\ res.trace = <<>> /\ fs = pre
        /\ res.err = NoErr =>
              /\ Len(fs[res.name].corim.tags) > 0
              /\ Len(fs[res.name].corim.tags) = Len(Listed)

C10_Witness ==
    /\ CreateDone
    /\ res.err = NoErr
    /\ Len(fs[res.name].corim.tags) = 2
    /\ op.args.comidDirs = <<"dir">>

(***************************************************************************)
(* sign: what the claims speak of.                                         *)
(***************************************************************************)
SignDone == phase = "done" /\ op.cmd = "sign"

\* the three mandatory flags are set
FlagsSet == op.args.file # NoPath /\ op.args.meta # NoPath /\ op.args.key # NoPath

NotRead(p) == ReadErr(pre, p) # ""

CorimBad ==
    \/ NotRead(op.args.file)
    \/ pre[op.args.file].cbor # ""
    \/ pre[op.args.file].tags = <<>>

MetaBad ==
    \/ NotRead(op.args.meta)
    \/ pre[op.args.meta].json # ""
    \/ pre[op.args.meta].signerName = ""

KeyBad == NotRead(op.args.key) \/ ~pre[op.args.key].key

\* intermediates are given and no signing certificate is
NoLeaf == op.args.intermediates # NoPath /\ op.args.cert = NoPath

DerBad(p) == p # NoPath /\ (NotRead(p) \/ ~pre[p].der)

\* the files read, in the order they were read
Reads ==
    LET r == SelectSeq(res.trace, LAMBDA x : x.e = "ReadFile")
    IN  [i \in 1..Len(r) |-> r[i].path]

CorimMsgs == { "error loading unsigned CoRIM from", "error decoding unsigned CoRIM from",
               "error validating CoRIM:" }
MetaMsgs  == { "error loading CoRIM Meta from", "error decoding CoRIM Meta from",
               "error validating CoRIM Meta:" }
KeyMsgs   == { "error loading signing key from" }
CertMsgs  == { "error loading signing certificate from", "error adding signing certificate" }
InterMsgs == { "error loading intermediate certificates from",
               "error adding intermediate certificates" }

(***************************************************************************)
(* C5 (as stated): sign with intermediates and without a signing           *)
(* certificate fails with exactly "cannot add intermediate certificates    *)
(* without a signing certificate" whatever the unsigned CoRIM, the Meta    *)
(* and the key are, and writes no output.                                  *)
(***************************************************************************)
C5_Original ==
    (SignDone /\ FlagsSet /\ NoLeaf) =>
        /\ res.err = ErrorNew(ErrNoLeaf)
        /\ fs = pre

(***************************************************************************)
(* C5 (amended): sign with intermediates and without a signing certificate *)
(* always fails and writes no output; the error is exactly "cannot add     *)
(* intermediate certificates without a signing certificate" whenever the   *)
(* unsigned CoRIM, the Meta and the key, which are checked first, are      *)
(* good, whatever the intermediates file holds, and the intermediates file *)
(* is then not read.                                                       *)
(***************************************************************************)
C5_NoLeafRefused ==
    (SignDone /\ FlagsSet /\ NoLeaf) =>
        /\ res.err # NoErr
        /\ res.name = NoPath
        /\ fs = pre
        /\ ~Called("WriteFile")
        /\ (~CorimBad /\ ~MetaBad /\ ~KeyBad) <=> res.err = ErrorNew(ErrNoLeaf)
        /\ op.args.intermediates \notin Range(Reads)

C5_Witness ==
    /\ SignDone /\ FlagsSet /\ NoLeaf
    /\ pre[InterPath] = DerFile(TRUE)
    /\ pre[CertPath] = DerFile(TRUE)
    /\ res.err = ErrorNew(ErrNoLeaf)
    /\ fs = pre

(***************************************************************************)
(* C6: sign checks its inputs in a fixed order and stops at the first      *)
(* failure: the unsigned CoRIM, the Meta, the key, intermediates without a *)
(* certificate, the certificate, the intermediates.  The error is that of  *)
(* the earliest failing step and no input of a later step is read.         *)
(***************************************************************************)
C6_FirstFailureWins ==
    (SignDone /\ FlagsSet) =>
        LET a  == op.args
            r3 == <<a.file, a.meta, a.key>>
            rc == IF a.cert = NoPath THEN r3 ELSE Append(r3, a.cert)
        IN  CASE CorimBad -> res.err.msg \in CorimMsgs /\ Reads = <<a.file>>
              [] MetaBad  -> res.err.msg \in MetaMsgs /\ Reads = <<a.file, a.meta>>
              [] KeyBad   -> res.err.msg \in KeyMsgs /\ Reads = r3
              [] NoLeaf   -> res.err = ErrorNew(ErrNoLeaf) /\ Reads = r3
              [] DerBad(a.cert) -> res.err.msg \in CertMsgs /\ Reads = rc
              [] DerBad(a.intermediates) ->
                     res.err.msg \in InterMsgs /\ Reads = Append(rc, a.intermediates)
              [] OTHER ->
                     res.err.msg \notin CorimMsgs \cup MetaMsgs \cup KeyMsgs
                                        \cup CertMsgs \cup InterMsgs \cup {ErrNoLeaf}

C6_Witness ==
    /\ SignDone /\ FlagsSet
    /\ ~CorimBad
    /\ pre[MetaPath] = MetaFile("", "")
    /\ KeyBad
    /\ NoLeaf
    /\ res.err = Errorf("error validating CoRIM Meta:", NoPath, ErrEmptyName)
    /\ Reads = <<CorimPath, MetaPath>>

(***************************************************************************)
(* The form of the errors.                                                 *)
(***************************************************************************)
\* the formats of the commands whose text reads "error <verb>ing <noun> from"
FromFormats ==
    { "error loading CoRIM from", "error encoding CoRIM Meta from",
      "error encoding unsigned CoRIM from",
      "error decoding CoRIM (signed or unsigned) from",
      "error loading template from", "error decoding template from",
      "error loading CoMID from", "error loading CoSWID from", "error loading CoTS from",
      "error adding CoMID from", "error adding CoSWID from", "error adding CoTS from",
      "error loading unsigned CoRIM from", "error decoding unsigned CoRIM from",
      "error loading CoRIM Meta from", "error decoding CoRIM Meta from",
      "error loading signing key from", "error loading signing certificate from",
      "error loading intermediate certificates from" }

\* the format ends in ": %w": the error wraps an underlying cause (the hint
\* that ends "error adding CoMID from %s (...)" is not one)
Wrapped(e) == e.cause # "" /\ e.cause # AddCause("CoMID")

\* "error <verb>ing <noun> from <path>: <underlying cause>"
HasForm(e) == e.msg \in FromFormats /\ e.path # NoPath /\ Wrapped(e)

\* the last call the command made ("" when it made none)
LastCall == IF res.trace = <<>> THEN Ev("", NoPath) ELSE res.trace[Len(res.trace)]

\* sign: exactly the inputs of B are at fault, and the flags are in order
OnlyFault(B) ==
    /\ FlagsSet /\ ~NoLeaf
    /\ CorimBad <=> "corim" \in B
    /\ MetaBad <=> "meta" \in B
    /\ KeyBad <=> "key" \in B
    /\ DerBad(op.args.cert) <=> "cert" \in B
    /\ DerBad(op.args.intermediates) <=> "inter" \in B

(***************************************************************************)
(* C12 as stated: every error create, display and sign return has the      *)
(* form "error <verb>ing <noun> from <path>: <underlying cause>".          *)
(***************************************************************************)
C12_Original ==
    phase = "done" /\ res.err # NoErr => HasForm(res.err)

(***************************************************************************)
(* C12: every error returned names what failed (its message is not         *)
(* empty), and it has the form "error <verb>ing <noun> from <path>:        *)
(* <cause>", with the path of the file at fault, exactly when it comes     *)
(* from a step on an input file: in display, every error but the usage     *)
(* error; in create, the read or the decoding of the template or of an     *)
(* artifact; in sign, an unsigned CoRIM, Meta or key that cannot be read   *)
(* or decoded, a certificate file that cannot be read.  The usage errors,  *)
(* a rejected add, the validation, the encoding, the saving, an empty      *)
(* signer name and intermediates without a certificate have other forms.   *)
(***************************************************************************)
C12_ErrorForm ==
    phase = "done" /\ res.err # NoErr =>
        /\ res.err.msg # ""
        /\ op.cmd = "display" =>
              /\ HasForm(res.err) <=> op.file # NoPath
              /\ HasForm(res.err) => res.err.path = op.file
        /\ op.cmd = "create" =>
              /\ HasForm(res.err) <=> LastCall.e \in {"ReadFile", "FromJSON", "FromCBOR"}
              /\ HasForm(res.err) => res.err.path = LastCall.path
              /\ LastCall.e = "Add" => res.err.path = LastCall.path /\ ~Wrapped(res.err)
              /\ LastCall.e \in {"", "Valid", "ToCBOR"} => res.err.path = NoPath
        /\ op.cmd = "sign" =>
              /\ ~FlagsSet => ~HasForm(res.err) /\ res.err.path = NoPath
              /\ OnlyFault({"corim"}) /\ (NotRead(op.args.file) \/ pre[op.args.file].cbor # "")
                    => HasForm(res.err) /\ res.err.path = op.args.file
              /\ OnlyFault({"meta"}) /\ (NotRead(op.args.meta) \/ pre[op.args.meta].json # "")
                    => HasForm(res.err) /\ res.err.path = op.args.meta
              /\ OnlyFault({"meta"}) /\ ~NotRead(op.args.meta) /\ pre[op.args.meta].json = ""
                    => res.err = Errorf("error validating CoRIM Meta:", NoPath, ErrEmptyName)
                       /\ ~HasForm(res.err)
              /\ OnlyFault({"key"}) => HasForm(res.err) /\ res.err.path = op.args.key
              /\ OnlyFault({"cert"}) /\ NotRead(op.args.cert)
                    => HasForm(res.err) /\ res.err.path = op.args.cert
              /\ OnlyFault({"inter"}) /\ NotRead(op.args.intermediates)
                    => HasForm(res.err) /\ res.err.path = op.args.intermediates
              /\ FlagsSet /\ NoLeaf /\ ~CorimBad /\ ~MetaBad /\ ~KeyBad
                    => res.err = ErrorNew(ErrNoLeaf) /\ ~HasForm(res.err)

\* create has failed on an artifact that does not decode, with an error of
\* the form, after a first artifact was added
C12_Witness ==
    /\ CreateDone
    /\ res.err = Errorf("error loading CoSWID from", ArtB, ErrMajorType)
    /\ HasForm(res.err)
    /\ Len(res.tags) = 1
    /\ LastCall = Ev("FromCBOR", ArtB)

(***************************************************************************)
(* C13: in tag expansion, a tag of a registered kind whose payload the     *)
(* kind's codec does not decode yields the warning "skipping malformed     *)
(* <kind> tag at index i", with its own index and kind; the tags after it  *)
(* are still processed, and display returns nil: whenever the file         *)
(* decodes and its views encode, display with tag expansion succeeds,      *)
(* whatever the tags hold.                                                 *)
(***************************************************************************)
\* the tag is of a registered kind and its payload does not decode
CodecFails(e) ==
    /\ Len(e) >= 4
    /\ IdOf(e) \in {ComidTag, CoswidTag, CotsTag}
    /\ CodecDecodeErr(SubSeq(e, 4, Len(e))) # ""

\* the file decodes, as a signed or as an unsigned CoRIM, and its views
\* encode to JSON
TopLevelOK ==
    \/ Input.cose = "" /\ Input.metaJSON /\ Input.corimJSON
    \/ Input.cose # "" /\ Input.cbor = "" /\ Input.corimJSON

C13_CodecFailureWarned ==
    /\ DisplayRead /\ op.showTags /\ TopLevelOK => Expanded /\ res.err = NoErr
    /\ Expanded =>
          /\ res.err = NoErr
          /\ Len(TagOut) = Len(Input.tags)
          /\ \A j \in 1..Len(Input.tags) :
                /\ CodecFails(Input.tags[j]) <=>
                      TagOut[j] = Line("skipping malformed kind tag", j - 1,
                                       KindOfId(IdOf(Input.tags[j])), <<>>)
                /\ \A k \in 1..(j - 1) :
                      (CodecFails(Input.tags[k]) /\ WellFormed(Input.tags[j])) =>
                          TagOut[j] = Line("printed", j - 1,
                                           KindOfId(IdOf(Input.tags[j])), <<>>)

\* a CoSWID that is cut short is followed by a CoMID that decodes
C13_Witness ==
    /\ Expanded
    /\ Input.tags = <<CoswidTag \o BodyTruncated, ComidTag \o BodyOK>>
    /\ CodecFails(Input.tags[1])
    /\ TagOut[1] = Line("skipping malformed kind tag", 0, "CoSWID", <<>>)
    /\ TagOut[2] = Line("printed", 1, "CoMID", <<>>)
    /\ res.err = NoErr

(***************************************************************************)
(* C14: in create, for each kind, the error returned when an artifact      *)
(* file cannot be read ("error loading <kind> from <path>: <the read       *)
(* error>") is never the error returned when the file is read and its      *)
(* content is rejected: a payload the codec does not decode gives the      *)
(* codec's error as the cause, and an artifact the manifest refuses gives  *)
(* "error adding <kind> from <path>", another text than that of a load.    *)
(***************************************************************************)
\* the number of artifact files create has read (the template is the first
\* file read)
ArtifactReads == Cardinality(Pos("ReadFile")) - 1

\* create has failed on a step of an artifact file
ArtifactStepFailed ==
    /\ CreateDone
    /\ res.err # NoErr
    /\ LastCall.e \in {"ReadFile", "FromCBOR", "Add"}
    /\ ArtifactReads >= 1

\* the artifact file create was at when it returned
Current == Listed[ArtifactReads]

\* the errors create returns when the file of x cannot be read
ReadFailures(x) ==
    { Errorf(LoadMsg(x.kind), x.file, c) : c \in {ErrNotExist, ErrPermission} }

Written == fs[res.name].corim.tags

Rank(kind) == CASE kind = "CoMID" -> 1 [] kind = "CoSWID" -> 2 [] kind = "CoTS" -> 3

\* the tags of the files the flag names, in the order of the command line
FromLine(kind, flag) ==
    LET sel == SelectSeq(op.line, LAMBDA x : /\ x.flag = flag
                                             /\ Exists(pre, x.value)
                                             /\ x.value.ext = ".cbor")
    IN  [i \in 1..Len(sel) |-> KindTag(kind) \o pre[sel[i].value].bytes]

\* the tags of the files of the directories
FromDirs(kind, dirs) ==
    LET l == DirFiles(pre, dirs, ".cbor", 1)
    IN  [i \in 1..Len(l) |-> KindTag(kind) \o pre[l[i]].bytes]

C15_TagOrder ==
    CreateDone /\ res.err = NoErr =>
        /\ Len(Written) = Len(Listed)
        /\ \A i \in 1..Len(Written) : Written[i] = TagOf(Listed[i])
        /\ \A i, j \in 1..Len(Written) :
              i < j => Rank(KindOfId(IdOf(Written[i]))) <= Rank(KindOfId(IdOf(Written[j])))
        /\ Written = FromLine("CoMID", "comid") \o FromDirs("CoMID", op.args.comidDirs)
                     \o FromLine("CoSWID", "coswid") \o FromDirs("CoSWID", op.args.coswidDirs)
                     \o FromLine("CoTS", "cots") \o FromDirs("CoTS", op.args.cotsDirs)

\* the CoSWID flag comes before the CoMID flag on the command line, and the
\* CoMID is the first tag of the manifest
C15_Witness ==
    /\ CreateDone
    /\ res.err = NoErr
    /\ op.line = <<[flag |-> "coswid", value |-> ArtA], [flag |-> "comid", value |-> ArtB]>>
    /\ Written = <<ComidTag \o BodyOK2, CoswidTag \o BodyOK>>
====
